---------------------------- MODULE Spec2Model ----------------------------
(***************************************************************************)
(* Model of the beta tape QNode (differentiation method selector, QNode    *)
(* construction, tape recording) as pinned by tests/beta/tapes/            *)
(* test_qnode.py, and of the wire/edge mapper of pennylane/qaoa/cycle.py.  *)
(*                                                                         *)
(* Five specifications share the variables below:                          *)
(*   SelSpec   - the selector functions and QNode construction             *)
(*   TapeSpec  - QNode calls: recording, storing and re-executing tapes    *)
(*   GraphSpec - edges_to_wires / wires_to_edges on a graph                *)
(*   LossSpec  - loss_hamiltonian on a graph with edge data                *)
(*   RecSpec   - the current recorder around QNode calls                   *)
(***************************************************************************)
EXTENDS Integers, Sequences, FiniteSets, TLC

VARIABLES
    call,       \* selector: the last invocation (function name and arguments)
    result,     \* selector: what that invocation returned or raised
    qn,         \* selector: the QNode object produced by QNode(...), or NONE
    qtape,      \* QNode.qtape: the stored tape, or NoTape
    cur,        \* the tape being recorded by the call in progress, or NoTape
    recorder,   \* ambient current-recorder reference: a tape id, or NoRecorder
    pc,         \* position of the QNode call: "idle" or "recording"
    created,    \* number of tape instances created so far (ids 1..created)
    outcome,    \* how the last QNode call / tape method ended
    returned,   \* the values the construction function returned to that call
    saved,      \* the recorder reference as it was when the call began
    aborted,    \* the tape of the last call if that call failed, or NoTape
    outer,      \* operations queued on the caller's own tape (UserTape)
    graph,      \* the graph: its edges in edge-iteration order
    e2w,        \* last value returned by edges_to_wires(graph)
    w2e,        \* last value returned by wires_to_edges(graph)
    weights,    \* the data dictionary of each edge, in edge-iteration order
    ham         \* what loss_hamiltonian(graph) returned or raised

selVars   == <<call, result, qn>>
tapeVars  == <<qtape, cur, recorder, pc, created, outcome, returned,
               saved, aborted, outer>>
graphVars == <<graph, e2w, w2e, weights, ham>>
vars      == <<call, result, qn, qtape, cur, recorder, pc, created, outcome,
               returned, saved, aborted, outer, graph, e2w, w2e, weights, ham>>

\* Python's None
NONE == "<None>"

(***************************************************************************)
(* Selector: devices, interfaces, methods                                  *)
(***************************************************************************)

\* the interface names a QNode accepts (None: no interface bound)
INTERFACE_MAP == {"autograd", "tf", "torch"}

\* requested interfaces, including an unrecognized name
RequestedInterfaces == INTERFACE_MAP \cup {NONE, "something"}

\* the "model" capability: qubit, continuous-variable, or the unknown "None"
Models == {"qubit", "cv", "None"}

\* devices, each with its capability set
Devices ==
    [is_device          : {TRUE},
     passthru_interface : INTERFACE_MAP \cup {NONE, "something"},
     provides_jacobian  : BOOLEAN,
     model              : Models]

\* QNode(None, None): the device argument is no device and has no capabilities
NoDevice ==
    [is_device |-> FALSE, passthru_interface |-> NONE,
     provides_jacobian |-> FALSE, model |-> NONE]

DiffMethods == {"best", "backprop", "device", "parameter-shift", "finite-diff"}

\* requested diff_method strings, including an unrecognized one
RequestedMethods == DiffMethods \cup {"hello"}

\* a returned (tape class, interface, method) triple; warn is the set of
\* warnings emitted on the way
Ok(tape_class, iface, method, warn) ==
    [tag |-> "ok", tape |-> tape_class, interface |-> iface, method |-> method,
     exc |-> NONE, msg |-> NONE, names |-> NONE, warn |-> warn]

\* a raised exception; names is the capability, interface or method the
\* message names
Raise(exc, msg, names) ==
    [tag |-> "error", tape |-> NONE, interface |-> NONE, method |-> NONE,
     exc |-> exc, msg |-> msg, names |-> names, warn |-> {}]

NoResult ==
    [tag |-> "none", tape |-> NONE, interface |-> NONE, method |-> NONE,
     exc |-> NONE, msg |-> NONE, names |-> NONE, warn |-> {}]

CVWarning == "CV parameter-shift rule not yet implemented"

\* QNode._validate_device_method(device, interface)
ValidateDeviceMethod_NoCheck(device, interface) ==
    Ok("QuantumTape", interface, "device", {})

_validate_device_method(device, interface) ==
    IF device.provides_jacobian
    THEN Ok("QuantumTape", interface, "device", {})
    ELSE Raise("QuantumFunctionError",
               "does not provide a native method for computing the jacobian",
               "provides_jacobian")

\* QNode._validate_backprop_method(device, interface)
ValidateBackprop_PassthruInterface(device, interface) ==
    IF device.passthru_interface # NONE
    THEN IF interface = device.passthru_interface
         THEN Ok("QuantumTape", device.passthru_interface, "backprop", {})
         ELSE Raise("QuantumFunctionError",
                    "only supports diff_method='backprop' when using the interface",
                    device.passthru_interface)
    ELSE Raise("QuantumFunctionError",
               "does not support native computations", "passthru_interface")

_validate_backprop_method(device, interface) ==
    IF device.passthru_interface # NONE
    THEN IF interface = device.passthru_interface
         THEN Ok("QuantumTape", NONE, "backprop", {})
         ELSE Raise("QuantumFunctionError",
                    "only supports diff_method='backprop' when using the interface",
                    device.passthru_interface)
    ELSE Raise("QuantumFunctionError",
               "does not support native computations", "passthru_interface")

\* QNode._get_parameter_shift_method(device, interface)
ParameterShift_CVRaises(device, interface) ==
    IF device.model = "qubit"
    THEN Ok("QubitParamShiftTape", interface, "analytic", {})
    ELSE Raise("QuantumFunctionError",
               "does not support the parameter-shift rule", "model")

_get_parameter_shift_method(device, interface) ==
    IF device.model = "qubit"
    THEN Ok("QubitParamShiftTape", interface, "analytic", {})
    ELSE IF device.model = "cv"
    THEN Ok("QuantumTape", interface, "numeric", {CVWarning})
    ELSE Raise("QuantumFunctionError",
               "does not support the parameter-shift rule", "model")

\* QNode._get_best_method(device, interface): the first of backprop, device,
\* parameter-shift that does not raise, else finite differences
BestMethod_DeviceFirst(device, interface) ==
    LET d == _validate_device_method(device, interface)
        b == _validate_backprop_method(device, interface)
        p == _get_parameter_shift_method(device, interface)
    IN  IF d.tag = "ok" THEN d
        ELSE IF b.tag = "ok" THEN b
        ELSE IF p.tag = "ok" THEN p
        ELSE Ok("QuantumTape", interface, "numeric", {})

BestMethod_NoFallback(device, interface) ==
    LET b == _validate_backprop_method(device, interface)
        d == _validate_device_method(device, interface)
        p == _get_parameter_shift_method(device, interface)
    IN  IF b.tag = "ok" THEN b
        ELSE IF d.tag = "ok" THEN d
        ELSE p

_get_best_method(device, interface) ==
    LET b == _validate_backprop_method(device, interface)
        d == _validate_device_method(device, interface)
        p == _get_parameter_shift_method(device, interface)
    IN  IF b.tag = "ok" THEN b
        ELSE IF d.tag = "ok" THEN d
        ELSE IF p.tag = "ok" THEN p
        ELSE Ok("QuantumTape", interface, "numeric", {})

\* "Differentiation method hello not recognized"
UnknownMethodError(diff_method) ==
    Raise("QuantumFunctionError", "Differentiation method not recognized",
          diff_method)

\* QNode.get_tape(device, interface, diff_method): dispatch on the method name
GetTape_DefaultsToBest(device, interface, diff_method) ==
    IF diff_method = "backprop" THEN _validate_backprop_method(device, interface)
    ELSE IF diff_method = "device" THEN _validate_device_method(device, interface)
    ELSE IF diff_method = "parameter-shift"
    THEN _get_parameter_shift_method(device, interface)
    ELSE IF diff_method = "finite-diff"
    THEN Ok("QuantumTape", interface, "numeric", {})
    ELSE _get_best_method(device, interface)

get_tape(device, interface, diff_method) ==
    IF diff_method = "best" THEN _get_best_method(device, interface)
    ELSE IF diff_method = "backprop" THEN _validate_backprop_method(device, interface)
    ELSE IF diff_method = "device" THEN _validate_device_method(device, interface)
    ELSE IF diff_method = "parameter-shift"
    THEN _get_parameter_shift_method(device, interface)
    ELSE IF diff_method = "finite-diff"
    THEN Ok("QuantumTape", interface, "numeric", {})
    ELSE UnknownMethodError(diff_method)


\* QNode.__init__(func, device, interface, diff_method): the validation
\* errors that apply to the arguments.  The tests pin each error with the
\* other arguments valid; which one is raised when several apply is not
\* pinned, so any of them may be.
InitErrors(device, interface, diff_method) ==
    (IF interface \notin INTERFACE_MAP \cup {NONE}
     THEN {Raise("QuantumFunctionError", "Unknown interface", interface)}
     ELSE {})
    \cup
    (IF ~device.is_device
     THEN {Raise("QuantumFunctionError", "Invalid device", "device")}
     ELSE {})
    \cup
    (IF ~device.is_device
     THEN IF diff_method \notin DiffMethods
          THEN {UnknownMethodError(diff_method)}
          ELSE {}
     ELSE IF get_tape(device, interface, diff_method).tag = "error"
     THEN {get_tape(device, interface, diff_method)}
     ELSE {})

\* no QNode object: the construction raised
NoQNode ==
    [device |-> NoDevice, _tape |-> NONE, interface |-> NONE,
     diff_options |-> [method |-> NONE], qtape |-> NONE]

\* the QNode object a successful construction produces
NewQNode(device, r) ==
    [device |-> device, _tape |-> r.tape, interface |-> r.interface,
     diff_options |-> [method |-> r.method], qtape |-> NONE]

Invocation(fn, device, interface, diff_method) ==
    [fn |-> fn, device |-> device, interface |-> interface,
     diff_method |-> diff_method]

\* the invocations: each selector function with every argument combination
Invocations ==
    {Invocation(f, d, i, NONE) :
        f \in {"_validate_device_method", "_validate_backprop_method",
               "_get_parameter_shift_method", "_get_best_method"},
        d \in Devices, i \in RequestedInterfaces}
    \cup
    {Invocation("get_tape", d, i, m) :
        d \in Devices, i \in RequestedInterfaces, m \in RequestedMethods}
    \cup
    {Invocation("QNode", d, i, m) :
        d \in Devices \cup {NoDevice}, i \in RequestedInterfaces,
        m \in RequestedMethods}

Pending(fn) == call.fn = fn /\ result.tag = "none"

CallValidateDevice ==
    /\ Pending("_validate_device_method")
    /\ result' = _validate_device_method(call.device, call.interface)
    /\ UNCHANGED <<call, qn, tapeVars, graphVars>>

CallValidateBackprop ==
    /\ Pending("_validate_backprop_method")
    /\ result' = _validate_backprop_method(call.device, call.interface)
    /\ UNCHANGED <<call, qn, tapeVars, graphVars>>

CallGetParameterShift ==
    /\ Pending("_get_parameter_shift_method")
    /\ result' = _get_parameter_shift_method(call.device, call.interface)
    /\ UNCHANGED <<call, qn, tapeVars, graphVars>>

CallGetBest ==
    /\ Pending("_get_best_method")
    /\ result' = _get_best_method(call.device, call.interface)
    /\ UNCHANGED <<call, qn, tapeVars, graphVars>>

CallGetTape ==
    /\ Pending("get_tape")
    /\ result' = get_tape(call.device, call.interface, call.diff_method)
    /\ UNCHANGED <<call, qn, tapeVars, graphVars>>

\* qn = QNode(func, device, interface=i, diff_method=m)
QNodeInit ==
    /\ Pending("QNode")
    /\ LET d == call.device
           i == call.interface
           m == call.diff_method
       IN  IF InitErrors(d, i, m) # {}
           THEN /\ result' \in InitErrors(d, i, m)
                /\ qn' = NoQNode
           ELSE /\ result' = get_tape(d, i, m)
                /\ qn' = NewQNode(d, get_tape(d, i, m))
    /\ UNCHANGED <<call, tapeVars, graphVars>>

NoCall == Invocation(NONE, NoDevice, NONE, NONE)


(***************************************************************************)
(* Initial values of the three groups of variables                         *)
(***************************************************************************)

\* qn.qtape is None
NoTape == [id |-> 0, operations |-> <<>>, measurements |-> <<>>]

\* no tape is recording
NoRecorder == 0

SelIdle ==
    /\ call = NoCall
    /\ result = NoResult
    /\ qn = NoQNode

TapeIdle ==
    /\ qtape = NoTape
    /\ cur = NoTape
    /\ recorder = NoRecorder
    /\ pc = "idle"
    /\ created = 0
    /\ outcome = "none"
    /\ returned = <<>>
    /\ saved = NoRecorder
    /\ aborted = NoTape
    /\ outer = <<>>

\* a mapper that has not been called
NotCalled == [called |-> FALSE, value |-> <<>>]

Returned(value) == [called |-> TRUE, value |-> value]

\* loss_hamiltonian has not been called
NoHamiltonian == [called |-> FALSE, exc |-> NONE, returned |-> FALSE,
                  terms |-> <<>>]

GraphIdle ==
    /\ graph = <<>>
    /\ e2w = NotCalled
    /\ w2e = NotCalled
    /\ weights = <<>>
    /\ ham = NoHamiltonian

(***************************************************************************)
(* SelSpec: the selector functions and QNode construction, each applied to *)
(* every device capability set, interface and method name                  *)
(***************************************************************************)

SelInit ==
    /\ call \in Invocations
    /\ result = NoResult
    /\ qn = NoQNode
    /\ TapeIdle
    /\ GraphIdle

SelNext ==
    \/ CallValidateDevice
    \/ CallValidateBackprop
    \/ CallGetParameterShift
    \/ CallGetBest
    \/ CallGetTape
    \/ QNodeInit

SelSpec == SelInit /\ [][SelNext]_vars


(***************************************************************************)
(* QNode calls and the quantum tape                                        *)
(***************************************************************************)

\* bounds of the model
MaxTapes == 2
MaxOps == 2
MaxMeas == 2
MaxRet == 2

\* the gates of the test circuits and their numeric-parameter slots:
\* qml.RX(x, wires=0) has one, qml.CNOT(wires=[0, 1]) has none
Ops == {"RX", "CNOT"}

ParamSlots(name) == IF name = "CNOT" THEN 0 ELSE 1

\* parameter values, in units of the finite-difference step h
ParamValues == {0, 1}

\* an instantiated operation: qml.RX(v, wires=...) or qml.CNOT(wires=...)
Operation(name, v) ==
    [name |-> name, data |-> IF ParamSlots(name) = 0 THEN <<>> ELSE <<v>>]

\* the k-th measurement instantiated while tape `id` was the recorder
Measurement(id, k) == [kind |-> "measurement", tape |-> id, idx |-> k]

\* a measurement instantiated while no tape was recording
ForeignMeasurement == Measurement(NoRecorder, 1)

\* a returned value that is no measurement (return 5)
NonMeasurement == [kind |-> "other", tape |-> NoRecorder, idx |-> 5]

\* a new tape instance is created by every call
NewTape_Reused(n) == [id |-> 1, operations |-> <<>>, measurements |-> <<>>]

NewTape(n) == [id |-> n + 1, operations |-> <<>>, measurements |-> <<>>]

\* tape.get_parameters(): the numeric parameters of the operations, in order
RECURSIVE Flatten(_)
Flatten(ops) ==
    IF ops = <<>> THEN <<>> ELSE Head(ops).data \o Flatten(Tail(ops))

get_parameters(tape) == Flatten(tape.operations)

\* tape.num_params
num_params(tape) == Len(get_parameters(tape))

\* tape.set_parameters(vals): binds the values into the operations in place
RECURSIVE Distribute(_, _)
Distribute(ops, vals) ==
    IF ops = <<>> THEN <<>>
    ELSE LET n == Len(Head(ops).data)
         IN  <<[Head(ops) EXCEPT !.data = SubSeq(vals, 1, n)]>>
             \o Distribute(Tail(ops), SubSeq(vals, n + 1, Len(vals)))

SetParameters_BindsAll(tape, vals) ==
    [tape EXCEPT !.operations =
        [k \in 1..Len(tape.operations) |->
            [tape.operations[k] EXCEPT !.data = vals]]]

set_parameters(tape, vals) ==
    [tape EXCEPT !.operations = Distribute(tape.operations, vals)]

\* tape.execute(device): binds the parameters and runs the queue on the
\* device; the tape is left as it was bound
execute(tape, vals) == set_parameters(tape, vals)

\* tape.numeric_pd(device, idx): f(x + h), f(x - h), each an execution of
\* the tape with parameter idx perturbed in place, then x restored
numeric_pd(tape, idx) ==
    LET x        == get_parameters(tape)
        forward  == execute(tape, [x EXCEPT ![idx] = x[idx] + 1])
        backward == execute(forward, [x EXCEPT ![idx] = x[idx] - 1])
    IN  execute(backward, x)

\* tape.jacobian(device, params): numeric_pd for every parameter in turn
RECURSIVE AllPartials(_, _)
AllPartials(tape, idx) ==
    IF idx > num_params(tape) THEN tape
    ELSE AllPartials(numeric_pd(tape, idx), idx + 1)

jacobian(tape, vals) == AllPartials(set_parameters(tape, vals), 1)

\* the parameter vectors a tape can be executed with
ParamVectors(tape) == [1..num_params(tape) -> ParamValues]

\* what the construction function may return: one to MaxRet values, each a
\* measurement of this tape, a measurement made elsewhere, or no measurement
RECURSIVE SeqsUpTo(_, _)
SeqsUpTo(S, n) ==
    IF n = 0 THEN {<<>>}
    ELSE SeqsUpTo(S, n - 1)
         \cup {Append(q, x) : q \in {r \in SeqsUpTo(S, n - 1) : Len(r) = n - 1},
                              x \in S}

ReturnValues(tape) ==
    SeqsUpTo({tape.measurements[k] : k \in 1..Len(tape.measurements)}
                 \cup {ForeignMeasurement, NonMeasurement}, MaxRet)
    \ {<<>>}

\* the check of the returned values against the recorded tape: the error
\* raised, or "ok"
ValidateReturn_Unordered(ret, tape) ==
    IF \E k \in 1..Len(ret) : ret[k].kind # "measurement"
    THEN "must return either a single measured observable"
    ELSE IF {ret[k] : k \in 1..Len(ret)}
            # {tape.measurements[k] : k \in 1..Len(tape.measurements)}
    THEN "measurements must be returned in the order they are measured"
    ELSE "ok"

ValidateReturn(ret, tape) ==
    IF \E k \in 1..Len(ret) : ret[k].kind # "measurement"
    THEN "must return either a single measured observable"
    ELSE IF ret # tape.measurements
    THEN "measurements must be returned in the order they are measured"
    ELSE "ok"

\* the tape the QNode holds after a call that built `tape`
StoredTape_KeepsAborted(verdict, stored, tape) == tape

StoredTape(verdict, stored, tape) == IF verdict = "ok" THEN tape ELSE stored

\* the recorder id of a tape the caller records on outside any QNode call
UserTape == -1

\* variant: the recorder is left on the tape of the call that just ended
RestoreRecorder_LeftOnTape(before, id) == id

\* leaving the queuing context of a call puts back the recorder reference
\* that was current when the call entered it
RestoreRecorder(before, id) == before

\* the tape of a call that ended with the given verdict, if it was aborted
AbortedTape(verdict, tape) == IF verdict = "ok" THEN NoTape ELSE tape

\* qn(x, y) begins: a new tape is created and made the current recorder
BeginCall ==
    /\ pc = "idle"
    /\ created < MaxTapes
    /\ cur' = NewTape(created)
    /\ created' = created + 1
    /\ recorder' = NewTape(created).id
    /\ pc' = "recording"
    /\ outcome' = "none"
    /\ returned' = <<>>
    /\ saved' = recorder
    /\ aborted' = NoTape
    /\ UNCHANGED <<qtape, outer, selVars, graphVars>>

\* the construction function instantiates an operation: it is appended to
\* the tape that is the current recorder
QueueOperation ==
    /\ pc = "recording"
    /\ recorder = cur.id
    /\ Len(cur.operations) < MaxOps
    /\ \E name \in Ops, v \in ParamValues :
          cur' = [cur EXCEPT !.operations = Append(@, Operation(name, v))]
    /\ UNCHANGED <<qtape, recorder, pc, created, outcome, returned,
                   saved, aborted, outer, selVars, graphVars>>

\* the construction function instantiates a measurement (expval, probs, ...)
QueueMeasurement ==
    /\ pc = "recording"
    /\ recorder = cur.id
    /\ Len(cur.measurements) < MaxMeas
    /\ cur' = [cur EXCEPT !.measurements =
                  Append(@, Measurement(cur.id, Len(@) + 1))]
    /\ UNCHANGED <<qtape, recorder, pc, created, outcome, returned,
                   saved, aborted, outer, selVars, graphVars>>

\* the construction function returns: the recorder is restored, the returned
\* values are checked, and on success the tape is stored and executed
EndCall ==
    /\ pc = "recording"
    /\ \E ret \in ReturnValues(cur) :
          /\ returned' = ret
          /\ outcome' = ValidateReturn(ret, cur)
          /\ qtape' = StoredTape(ValidateReturn(ret, cur), qtape, cur)
          /\ aborted' = AbortedTape(ValidateReturn(ret, cur), cur)
    /\ cur' = NoTape
    /\ recorder' = RestoreRecorder(saved, cur.id)
    /\ saved' = NoRecorder
    /\ pc' = "idle"
    /\ UNCHANGED <<created, outer, selVars, graphVars>>

\* qn.qtape.execute(dev, params)
Execute ==
    /\ pc = "idle"
    /\ qtape # NoTape
    /\ \E vals \in ParamVectors(qtape) : qtape' = execute(qtape, vals)
    /\ outcome' = "execute"
    /\ UNCHANGED <<cur, recorder, pc, created, returned, saved, aborted, outer,
                   selVars, graphVars>>

\* qn.qtape.numeric_pd(dev, idx)
NumericPd ==
    /\ pc = "idle"
    /\ qtape # NoTape
    /\ \E idx \in 1..num_params(qtape) : qtape' = numeric_pd(qtape, idx)
    /\ outcome' = "numeric_pd"
    /\ UNCHANGED <<cur, recorder, pc, created, returned, saved, aborted, outer,
                   selVars, graphVars>>

\* qn.qtape.jacobian(dev, params=[...])
Jacobian ==
    /\ pc = "idle"
    /\ qtape # NoTape
    /\ \E vals \in ParamVectors(qtape) : qtape' = jacobian(qtape, vals)
    /\ outcome' = "jacobian"
    /\ UNCHANGED <<cur, recorder, pc, created, returned, saved, aborted, outer,
                   selVars, graphVars>>

TapeInit == SelIdle /\ TapeIdle /\ GraphIdle

TapeNext ==
    \/ BeginCall
    \/ QueueOperation
    \/ QueueMeasurement
    \/ EndCall
    \/ Execute
    \/ NumericPd
    \/ Jacobian

TapeSpec == TapeInit /\ [][TapeNext]_vars

(***************************************************************************)
(* The ambient current recorder around a QNode call: the caller may be     *)
(* recording on a tape of its own when it calls the QNode, and may         *)
(* instantiate operations before and after the call.                       *)
(***************************************************************************)

\* bound on the operations the caller queues on its own tape
MaxOuter == 1

\* the tape after an operation was instantiated: the operation is appended
\* exactly when this tape is the current recorder
Queued(tape, rec, op) ==
    IF rec # NoRecorder /\ tape.id = rec
    THEN [tape EXCEPT !.operations = Append(@, op)]
    ELSE tape

\* with user_tape: the caller's tape becomes the current recorder
EnterContext ==
    /\ pc = "idle"
    /\ recorder = NoRecorder
    /\ recorder' = UserTape
    /\ UNCHANGED <<qtape, cur, pc, created, outcome, returned, saved, aborted,
                   outer, selVars, graphVars>>

\* the caller's with-block ends
ExitContext ==
    /\ pc = "idle"
    /\ recorder = UserTape
    /\ recorder' = NoRecorder
    /\ UNCHANGED <<qtape, cur, pc, created, outcome, returned, saved, aborted,
                   outer, selVars, graphVars>>

\* an operation is instantiated outside any QNode call: it is appended to
\* whichever tape is the current recorder, and to none if there is none
Instantiate ==
    /\ pc = "idle"
    /\ Len(outer) < MaxOuter
    /\ \E name \in Ops, v \in ParamValues :
          /\ outer' = IF recorder = UserTape
                      THEN Append(outer, Operation(name, v))
                      ELSE outer
          /\ qtape' = Queued(qtape, recorder, Operation(name, v))
          /\ aborted' = Queued(aborted, recorder, Operation(name, v))
    /\ UNCHANGED <<cur, recorder, pc, created, outcome, returned, saved,
                   selVars, graphVars>>

RecInit == SelIdle /\ TapeIdle /\ GraphIdle

RecNext ==
    \/ BeginCall
    \/ QueueOperation
    \/ QueueMeasurement
    \/ EndCall
    \/ EnterContext
    \/ ExitContext
    \/ Instantiate

RecSpec == RecInit /\ [][RecNext]_vars

(***************************************************************************)
(* The wire/edge mapper of qaoa/cycle.py                                   *)
(***************************************************************************)

\* bounds of the model: nodes 0..MaxNode, at most MaxEdges edges
MaxNode == 2
MaxEdges == 3

Nodes == 0..MaxNode

\* graph.edges of a networkx graph iterates the adjacency of each node in
\* turn: every edge occurs once, and the edges leaving one node are
\* contiguous.  Self-loops are edges like any other.
IsEdgeView(s) ==
    /\ \A j, k \in 1..Len(s) : j # k => s[j] # s[k]
    /\ \A j, k \in 1..Len(s) :
          (j < k /\ s[j][1] = s[k][1]) =>
              \A m \in j..k : s[m][1] = s[j][1]

Graphs == {s \in SeqsUpTo(Nodes \X Nodes, MaxEdges) : IsEdgeView(s)}

EdgesOf(g) == {g[k] : k \in 1..Len(g)}

\* {edge: i for i, edge in enumerate(graph.edges)}: a later occurrence of a
\* key overwrites an earlier one
EdgesToWires_FromOne(g) ==
    [e \in EdgesOf(g) |->
        CHOOSE k \in 1..Len(g) :
            g[k] = e /\ \A j \in (k + 1)..Len(g) : g[j] # e]

edges_to_wires(g) ==
    [e \in EdgesOf(g) |->
        (CHOOSE k \in 1..Len(g) :
            g[k] = e /\ \A j \in (k + 1)..Len(g) : g[j] # e) - 1]

\* {i: edge for i, edge in enumerate(graph.edges)}
wires_to_edges(g) == [i \in 0..(Len(g) - 1) |-> g[i + 1]]

CallEdgesToWires ==
    /\ ~e2w.called
    /\ e2w' = Returned(edges_to_wires(graph))
    /\ UNCHANGED <<graph, w2e, weights, ham, selVars, tapeVars>>

CallWiresToEdges ==
    /\ ~w2e.called
    /\ w2e' = Returned(wires_to_edges(graph))
    /\ UNCHANGED <<graph, e2w, weights, ham, selVars, tapeVars>>

GraphInit ==
    /\ graph \in Graphs
    /\ e2w = NotCalled
    /\ w2e = NotCalled
    /\ weights = <<>>
    /\ ham = NoHamiltonian
    /\ SelIdle
    /\ TapeIdle

GraphNext ==
    \/ CallEdgesToWires
    \/ CallWiresToEdges

GraphSpec == GraphInit /\ [][GraphNext]_vars

(***************************************************************************)
(* Mapper claims (checked under GraphSpec)                                 *)
(***************************************************************************)

\* C10: edges_to_wires maps the edges one-to-one onto the wires 0..|E|-1 in
\* edge-iteration order, and wires_to_edges is its inverse: taking an edge to
\* its wire and back gives the edge, and a wire to its edge and back gives
\* the wire.
C10_MapperRoundTrip ==
    LET E == EdgesOf(graph)
    IN  /\ e2w.called =>
              /\ DOMAIN e2w.value = E
              /\ \A k \in 1..Len(graph) : e2w.value[graph[k]] = k - 1
              /\ {e2w.value[e] : e \in E} = 0..(Cardinality(E) - 1)
              /\ \A e, f \in E : e2w.value[e] = e2w.value[f] => e = f
        /\ (e2w.called /\ w2e.called) =>
              /\ \A e \in E :
                    /\ e2w.value[e] \in DOMAIN w2e.value
                    /\ w2e.value[e2w.value[e]] = e
              /\ \A w \in DOMAIN w2e.value :
                    /\ w2e.value[w] \in DOMAIN e2w.value
                    /\ e2w.value[w2e.value[w]] = w

C10_Witness ==
    /\ e2w.called
    /\ w2e.called
    /\ graph = <<<<0, 1>>, <<0, 2>>, <<1, 0>>>>
    /\ e2w.value[<<1, 0>>] = 2
    /\ w2e.value[2] = <<1, 0>>

(***************************************************************************)
(* loss_hamiltonian of qaoa/cycle.py                                       *)
(***************************************************************************)

\* bound of the model: graphs of at most MaxLossEdges edges
MaxLossEdges == 2

\* edge weights c > 0, in halves: 0.5, 1.0, 1.5 (the first weights of the
\* docstring example)
Weights == {1, 2, 3}

\* np.log of a weight, in millionths: log 0.5, log 1.0, log 1.5
np_log(w) ==
    CASE w = 1 -> -693147
      [] w = 2 -> 0
      [] w = 3 -> 405465

\* the data dictionary of an edge: with or without the key "weight"
EdgeData == {{}} \cup {{<<"weight", w>>} : w \in Weights}

HasKey(d, key) == \E item \in d : item[1] = key

Lookup(d, key) == (CHOOSE item \in d : item[1] = key)[2]

\* the graphs given to loss_hamiltonian
LossGraphs == {s \in SeqsUpTo(Nodes \X Nodes, MaxLossEdges) : IsEdgeView(s)}

Hamiltonian(terms) ==
    [called |-> TRUE, exc |-> NONE, returned |-> TRUE, terms |-> terms]

Raised(exc) ==
    [called |-> TRUE, exc |-> exc, returned |-> FALSE, terms |-> <<>>]

PauliZ(wire) == [name |-> "PauliZ", wires |-> <<wire>>]

\* the exception edge k raises in the loop body, or NONE: the self-loop test
\* comes before the weight lookup
EdgeError_WeightFirst(g, data, k) ==
    IF ~HasKey(data[k], "weight") THEN "KeyError"
    ELSE IF g[k][1] = g[k][2] THEN "ValueError"
    ELSE NONE

EdgeError(g, data, k) ==
    IF g[k][1] = g[k][2] THEN "ValueError"
    ELSE IF ~HasKey(data[k], "weight") THEN "KeyError"
    ELSE NONE

\* the term edge k contributes: coeffs.append(np.log(weight)),
\* ops.append(qml.PauliZ(wires=edges_to_qubits[edge]))
Term_RawWeight(g, data, k) ==
    [coeff |-> Lookup(data[k], "weight"),
     op |-> PauliZ(edges_to_wires(g)[g[k]])]

Term(g, data, k) ==
    [coeff |-> np_log(Lookup(data[k], "weight")),
     op |-> PauliZ(edges_to_wires(g)[g[k]])]

\* the loop over graph.edges(data=True), from edge k on
RECURSIVE LossLoop(_, _, _, _)
LossLoop(g, data, k, terms) ==
    IF k > Len(g) THEN Hamiltonian(terms)
    ELSE IF EdgeError(g, data, k) # NONE THEN Raised(EdgeError(g, data, k))
    ELSE LossLoop(g, data, k + 1, Append(terms, Term(g, data, k)))

loss_hamiltonian(g, data) == LossLoop(g, data, 1, <<>>)

CallLossHamiltonian ==
    /\ ~ham.called
    /\ ham' = loss_hamiltonian(graph, weights)
    /\ UNCHANGED <<graph, e2w, w2e, weights, selVars, tapeVars>>

LossInit ==
    /\ graph \in LossGraphs
    /\ weights \in [1..Len(graph) -> EdgeData]
    /\ ham = NoHamiltonian
    /\ e2w = NotCalled
    /\ w2e = NotCalled
    /\ SelIdle
    /\ TapeIdle

LossNext == CallLossHamiltonian

LossSpec == LossInit /\ [][LossNext]_vars

(***************************************************************************)
(* Loss Hamiltonian claims (checked under LossSpec)                        *)
(***************************************************************************)

IsSelfLoop(e) == e[1] = e[2]

HasSelfLoop == \E k \in 1..Len(graph) : IsSelfLoop(graph[k])

LacksWeight(k) == ~HasKey(weights[k], "weight")

HasWeightlessEdge == \E k \in 1..Len(graph) : LacksWeight(k)

\* C11: on a graph without self-loops whose edges all carry a (positive)
\* weight, loss_hamiltonian returns one term per edge in edge-iteration
\* order; the term of edge e has coefficient ln(weight(e)) and observable a
\* single PauliZ on wire edges_to_wires(graph)[e]; no two terms share a wire.
C11_OneTermPerEdge ==
    (ham.called /\ ~HasSelfLoop /\ ~HasWeightlessEdge) =>
        /\ ham.returned
        /\ Len(ham.terms) = Len(graph)
        /\ \A k \in 1..Len(graph) :
              /\ k \in DOMAIN ham.terms
              /\ ham.terms[k].coeff = np_log(Lookup(weights[k], "weight"))
              /\ ham.terms[k].op.name = "PauliZ"
              /\ ham.terms[k].op.wires = <<edges_to_wires(graph)[graph[k]]>>
        /\ \A j, k \in DOMAIN ham.terms :
              ham.terms[j].op.wires = ham.terms[k].op.wires => j = k

C11_Witness ==
    /\ ham.called
    /\ graph = <<<<0, 1>>, <<1, 0>>>>
    /\ weights = <<{<<"weight", 1>>}, {<<"weight", 3>>}>>
    /\ ham.terms = <<[coeff |-> -693147, op |-> PauliZ(0)],
                     [coeff |-> 405465, op |-> PauliZ(1)]>>

\* an edge that makes the loop body raise
Offends(k) == IsSelfLoop(graph[k]) \/ LacksWeight(k)

\* C12 as stated: loss_hamiltonian raises ValueError if any edge is a
\* self-loop, and KeyError if any edge lacks the weight, and returns no
\* Hamiltonian in either case, for every graph.
C12_Original ==
    ham.called =>
        /\ HasSelfLoop => ham.exc = "ValueError"
        /\ HasWeightlessEdge => ham.exc = "KeyError"
        /\ (HasSelfLoop \/ HasWeightlessEdge) => ~ham.returned

\* C12 amended: if any edge is a self-loop or lacks the weight,
\* loss_hamiltonian raises and returns no Hamiltonian, and the error is that
\* of the first such edge in edge-iteration order: ValueError if that edge is
\* a self-loop (with or without weight data), KeyError otherwise.
C12_FirstOffendingEdge ==
    (ham.called /\ (HasSelfLoop \/ HasWeightlessEdge)) =>
        LET first == CHOOSE k \in 1..Len(graph) :
                        Offends(k) /\ \A j \in 1..(k - 1) : ~Offends(j)
        IN  /\ ~ham.returned
            /\ ham.terms = <<>>
            /\ ham.exc = IF IsSelfLoop(graph[first])
                         THEN "ValueError" ELSE "KeyError"

C12_Witness ==
    /\ ham.called
    /\ graph = <<<<0, 1>>, <<1, 1>>>>
    /\ LacksWeight(1)
    /\ ~LacksWeight(2)
    /\ ham.exc = "KeyError"
    /\ ~ham.returned

(***************************************************************************)
(* Tape claims (checked under TapeSpec; C13 under RecSpec)                 *)
(***************************************************************************)

\* a step in which the construction function returns and the call ends
CallEnds == pc = "recording" /\ pc' = "idle"

IsPrefix(s, q) == Len(s) <= Len(q) /\ s = SubSeq(q, 1, Len(s))

\* a step in which a QNode call begins
CallBegins == pc = "idle" /\ pc' = "recording"

\* a step inside a call, and one outside any call
DuringCall == pc = "recording" /\ pc' = "recording"
OutsideCall == pc = "idle" /\ pc' = "idle"

\* q is s with exactly one more element at its end
OneAppended(s, q) == Len(q) = Len(s) + 1 /\ IsPrefix(s, q)

\* one operation or one measurement was appended to the tape of the call
QueuedOnCallTape ==
    \/ /\ OneAppended(cur.operations, cur'.operations)
       /\ cur'.measurements = cur.measurements
    \/ /\ OneAppended(cur.measurements, cur'.measurements)
       /\ cur'.operations = cur.operations

\* C13: the current-recorder reference is scoped to one call. The call makes
\* its own new tape the recorder and remembers the previous reference; during
\* the call every instantiated operation or measurement is appended, at the
\* end, to the tape of that call and no other tape changes; when the call
\* exits, with success or with an error, the recorder is again what it was
\* before the call; and outside a call no instantiation changes the stored
\* tape or the aborted tape.
C13_RecorderScopedToCall ==
    [][ /\ CallBegins =>
              /\ recorder' = cur'.id
              /\ recorder' \notin {NoRecorder, UserTape, qtape.id}
              /\ saved' = recorder
        /\ DuringCall =>
              /\ recorder = cur.id
              /\ recorder' = recorder
              /\ saved' = saved
              /\ cur'.id = cur.id
              /\ QueuedOnCallTape
              /\ qtape' = qtape
              /\ outer' = outer
              /\ aborted' = aborted
        /\ CallEnds =>
              /\ outcome' = ValidateReturn(returned', cur)
              /\ recorder' = saved
              /\ outer' = outer
        /\ OutsideCall =>
              /\ qtape' = qtape
              /\ aborted' = aborted
              /\ recorder' \in {NoRecorder, UserTape}
      ]_vars

\* a call made while the caller's tape was the recorder failed; the recorder
\* is the caller's tape again and an operation instantiated there went to it
C13_Witness ==
    /\ pc = "idle"
    /\ aborted # NoTape
    /\ Len(aborted.operations) > 0
    /\ outcome = "measurements must be returned in the order they are measured"
    /\ recorder = UserTape
    /\ Len(outer) > 0

OpNames(tape) == [k \in 1..Len(tape.operations) |-> tape.operations[k].name]

\* the structure of a tape: its operations and its measurements, in order
Structure(tape) == <<OpNames(tape), tape.measurements>>

\* the numeric-parameter slots of a sequence of operations
RECURSIVE SlotSum(_)
SlotSum(ops) ==
    IF ops = <<>> THEN 0 ELSE ParamSlots(Head(ops).name) + SlotSum(Tail(ops))

\* C7: a recording succeeds exactly when every returned value is a
\* measurement and the returned sequence equals the queued measurements in
\* order, and otherwise fails with a construction error; after a success the
\* tape's measurements are the returned sequence and its operations are the
\* operations in instantiation order (each instantiation appends).
C7_RecordChecksReturn ==
    [][/\ CallEnds =>
            /\ (outcome' = "ok") <=>
                  /\ \A k \in 1..Len(returned') :
                        returned'[k].kind = "measurement"
                  /\ returned' = cur.measurements
            /\ outcome' # "ok" =>
                  outcome' \in
                    {"must return either a single measured observable",
                     "measurements must be returned in the order they are measured"}
            /\ outcome' = "ok" =>
                  /\ qtape'.measurements = returned'
                  /\ qtape'.operations = cur.operations
       /\ (pc = "recording" /\ pc' = "recording") =>
            /\ IsPrefix(cur.operations, cur'.operations)
            /\ IsPrefix(cur.measurements, cur'.measurements)
            /\ Len(cur'.operations) + Len(cur'.measurements)
                  = Len(cur.operations) + Len(cur.measurements) + 1
      ]_vars

C7_Witness ==
    /\ pc = "idle"
    /\ outcome = "ok"
    /\ Len(returned) = 2
    /\ qtape.measurements = returned
    /\ Len(qtape.operations) = 2

\* C8: a successful call stores the tape it built, a new instance whose
\* identity differs from that of every tape created before; a failed call
\* leaves the stored tape as it was; and while a call is recording the
\* stored tape is not touched.
C8_StoredTapeIsLastSuccess ==
    [][/\ (pc = "idle" /\ pc' = "recording") =>
            /\ cur'.id \notin 0..created
            /\ cur'.operations = <<>> /\ cur'.measurements = <<>>
            /\ qtape' = qtape
       /\ (pc = "recording" /\ pc' = "recording") => qtape' = qtape
       /\ (CallEnds /\ outcome' = "ok") =>
            /\ qtape' = cur
            /\ qtape'.id # qtape.id
            /\ qtape'.id = created
       /\ (CallEnds /\ outcome' # "ok") => qtape' = qtape
      ]_vars

C8_Witness ==
    /\ pc = "idle"
    /\ outcome = "measurements must be returned in the order they are measured"
    /\ qtape # NoTape
    /\ qtape.id = 1
    /\ created = 2

\* C9: execute, numeric_pd and jacobian leave the stored tape's operations,
\* measurements and parameter count as they were, whatever values they bind
\* or perturb, and the parameter count of a stored tape is always the sum of
\* the numeric-parameter slots of its operations.
C9_StructureFrozen ==
    [][/\ (pc = "idle" /\ pc' = "idle" /\ qtape # NoTape) =>
            /\ qtape'.id = qtape.id
            /\ Structure(qtape') = Structure(qtape)
            /\ num_params(qtape') = num_params(qtape)
       /\ num_params(qtape') = SlotSum(qtape'.operations)
      ]_vars

C9_Witness ==
    /\ pc = "idle"
    /\ outcome = "jacobian"
    /\ OpNames(qtape) = <<"RX", "RX">>
    /\ get_parameters(qtape) = <<1, 0>>
    /\ Len(qtape.measurements) = 2

(***************************************************************************)
(* Selector claims (checked under SelSpec)                                 *)
(***************************************************************************)

Done == result.tag # "none"

Triple(r) == <<r.tape, r.interface, r.method>>

\* a completed selection with diff_method="best"
BestCall ==
    /\ Done
    /\ \/ call.fn = "_get_best_method"
       \/ call.fn = "get_tape" /\ call.diff_method = "best"

\* a completed explicit request for method m
ExplicitCall(fn, m) ==
    /\ Done
    /\ \/ call.fn = fn
       \/ call.fn = "get_tape" /\ call.diff_method = m

IsQFE(r) == r.tag = "error" /\ r.exc = "QuantumFunctionError"

\* C1 as stated: with passthru_interface set and provides_jacobian True,
\* "best" resolves to "backprop" and never to "device", whatever interface
\* is requested.
C1_Original ==
    (BestCall /\ call.device.passthru_interface # NONE
              /\ call.device.provides_jacobian)
        => (result.method = "backprop" /\ result.method # "device")

\* C1 amended: with passthru_interface set and provides_jacobian True, "best"
\* resolves to "backprop" (never "device") when the requested interface is
\* the passthrough interface, and to "device" for any other interface.
C1_BackpropBeforeDevice ==
    (BestCall /\ call.device.passthru_interface # NONE
              /\ call.device.provides_jacobian)
        => IF call.interface = call.device.passthru_interface
           THEN result.tag = "ok" /\ result.method = "backprop"
           ELSE result.tag = "ok" /\ result.method = "device"

C1_Witness ==
    /\ BestCall
    /\ call.device.passthru_interface = "tf"
    /\ call.device.provides_jacobian
    /\ call.interface = "tf"
    /\ result.method = "backprop"

\* C2: "best" never raises and returns the first applicable of: backprop
\* (passthrough interface equals the requested one), (QuantumTape, interface,
\* "device") if the device provides a jacobian, (QubitParamShiftTape,
\* interface, "analytic") on a qubit device, (QuantumTape, interface,
\* "numeric") otherwise.
C2_BestIsTotalAndOrdered ==
    BestCall =>
        LET d == call.device
            i == call.interface
        IN  /\ result.tag = "ok"
            /\ IF d.passthru_interface # NONE /\ d.passthru_interface = i
               THEN result.method = "backprop"
               ELSE IF d.provides_jacobian
               THEN Triple(result) = <<"QuantumTape", i, "device">>
               ELSE IF d.model = "qubit"
               THEN Triple(result) = <<"QubitParamShiftTape", i, "analytic">>
               ELSE Triple(result) = <<"QuantumTape", i, "numeric">>

C2_Witness ==
    /\ BestCall
    /\ call.device.passthru_interface = NONE
    /\ ~call.device.provides_jacobian
    /\ call.device.model = "None"
    /\ Triple(result) = <<"QuantumTape", call.interface, "numeric">>

\* C3 as stated: a "backprop" descriptor carries the passthrough interface
\* declared by the device as its interface component.
C3_Original ==
    (Done /\ result.method = "backprop")
        => result.interface = call.device.passthru_interface

\* C3 amended: a "backprop" descriptor is returned only when the device
\* declares a passthrough interface equal to the requested one, and it is
\* (QuantumTape, None, "backprop"): its interface component is None.
C3_BackpropDescriptor ==
    (Done /\ result.method = "backprop")
        => /\ call.device.passthru_interface # NONE
           /\ call.device.passthru_interface = call.interface
           /\ Triple(result) = <<"QuantumTape", NONE, "backprop">>

C3_Witness ==
    /\ Done
    /\ call.device.passthru_interface = "something"
    /\ call.interface = "something"
    /\ Triple(result) = <<"QuantumTape", NONE, "backprop">>

\* C4: an explicit request depends on its own capability only: "device"
\* returns (QuantumTape, interface, "device") iff provides_jacobian, else
\* raises QuantumFunctionError; "backprop" succeeds iff passthru_interface is
\* declared and equals the requested interface, else raises
\* QuantumFunctionError with one message for a missing passthrough and
\* another for a mismatch; "finite-diff" always returns QuantumTape with
\* "numeric".
C4_ExplicitRequests ==
    LET d == call.device
        i == call.interface
    IN  /\ ExplicitCall("_validate_device_method", "device") =>
              IF d.provides_jacobian
              THEN result = Ok("QuantumTape", i, "device", {})
              ELSE IsQFE(result) /\ result.names = "provides_jacobian"
        /\ ExplicitCall("_validate_backprop_method", "backprop") =>
              /\ (result.tag = "ok" /\ result.method = "backprop")
                    <=> (d.passthru_interface # NONE /\ d.passthru_interface = i)
              /\ result.tag # "ok" => IsQFE(result)
              /\ (result.tag # "ok" /\ d.passthru_interface = NONE)
                    => result.msg = "does not support native computations"
              /\ (result.tag # "ok" /\ d.passthru_interface # NONE)
                    => /\ result.msg # "does not support native computations"
                       /\ result.names = d.passthru_interface
        /\ ExplicitCall("finite-diff", "finite-diff") =>
              /\ result.tag = "ok"
              /\ result.tape = "QuantumTape"
              /\ result.method = "numeric"

C4_Witness ==
    /\ ExplicitCall("_validate_device_method", "device")
    /\ call.fn = "get_tape"
    /\ ~call.device.provides_jacobian
    /\ call.device.passthru_interface = call.interface
    /\ call.device.model = "qubit"
    /\ IsQFE(result)

\* C5: parameter-shift returns (QubitParamShiftTape, interface, "analytic")
\* without warning on a qubit device, warns and returns (QuantumTape,
\* interface, "numeric") on a continuous-variable device, and raises
\* QuantumFunctionError on any other model; a warning is emitted by no
\* selection other than this continuous-variable fallback.
C5_ParameterShiftFallback ==
    LET d == call.device
        i == call.interface
    IN  /\ ExplicitCall("_get_parameter_shift_method", "parameter-shift") =>
              IF d.model = "qubit"
              THEN result = Ok("QubitParamShiftTape", i, "analytic", {})
              ELSE IF d.model = "cv"
              THEN result = Ok("QuantumTape", i, "numeric", {CVWarning})
              ELSE IsQFE(result) /\ result.warn = {}
        /\ (Done /\ result.warn # {}) =>
              /\ result.warn = {CVWarning}
              /\ d.model = "cv"
              /\ Triple(result) = <<"QuantumTape", i, "numeric">>
              /\ \/ call.fn = "_get_parameter_shift_method"
                 \/ call.fn = "_get_best_method"
                 \/ call.diff_method \in {"parameter-shift", "best"}

C5_Witness ==
    /\ ExplicitCall("_get_parameter_shift_method", "parameter-shift")
    /\ call.device.model = "cv"
    /\ result.warn = {CVWarning}
    /\ result.method = "numeric"

\* C6: QNode(...) with an unrecognized diff_method, an unrecognized interface
\* or an invalid device raises QuantumFunctionError and produces no QNode;
\* when it is the only invalid argument the message names the method, is
\* "Unknown interface", or is "Invalid device".
C6_InvalidInputsFail ==
    (Done /\ call.fn = "QNode") =>
        LET badI == call.interface \notin INTERFACE_MAP \cup {NONE}
            badD == ~call.device.is_device
            badM == call.diff_method \notin DiffMethods
        IN  /\ (badI \/ badD \/ badM) => (IsQFE(result) /\ qn = NoQNode)
            /\ (badM /\ ~badI /\ ~badD) =>
                  /\ result.msg = "Differentiation method not recognized"
                  /\ result.names = call.diff_method
            /\ (badI /\ ~badD /\ call.diff_method \in {"best", "finite-diff"}) =>
                  result.msg = "Unknown interface"
            /\ (badD /\ ~badI /\ ~badM) => result.msg = "Invalid device"

C6_Witness ==
    /\ Done
    /\ call.fn = "QNode"
    /\ call.device.is_device
    /\ call.interface \in INTERFACE_MAP
    /\ call.diff_method = "hello"
    /\ result.names = "hello"
    /\ qn = NoQNode

=============================================================================
